---- MODULE Spec2Model ----
(***************************************************************************)
(* Model of ingestion.py: the product-name normaliser, the six stages of   *)
(* main() (load, explode, load, normalise, match, write) over a SQLite     *)
(* database that survives from run to run, and the producer / queue /      *)
(* consumer hand-off that streams matched records into the transactions    *)
(* table.                                                                  *)
(*                                                                         *)
(* A Python str is a sequence of one-character strings, so that strip,     *)
(* upper, the regular expressions and the trailing-S rule act on           *)
(* characters as they do in the code.                                      *)
(***************************************************************************)
EXTENDS Integers, Sequences, FiniteSets, TLC

(***************************************************************************)
(* Bounds of the model.                                                    *)
(***************************************************************************)
\* longest generated raw product name
MaxLen == 4
\* most rows of Retail.csv / Warehouse.csv in a single run
MaxRetailRows == 2
MaxWarehouseRows == 2
\* most rows of either file, and most runs, when runs follow each other
RunRows == 1
MaxRuns == 2
\* most records handed to the producer
MaxRecords == 3

(***************************************************************************)
(* Characters.                                                             *)
(***************************************************************************)
LowerLetters ==
  <<"a", "b", "c", "d", "e", "f", "g", "h", "i", "j", "k", "l", "m",
    "n", "o", "p", "q", "r", "s", "t", "u", "v", "w", "x", "y", "z">>

UpperLetters ==
  <<"A", "B", "C", "D", "E", "F", "G", "H", "I", "J", "K", "L", "M",
    "N", "O", "P", "Q", "R", "S", "T", "U", "V", "W", "X", "Y", "Z">>

Digits == {"0", "1", "2", "3", "4", "5", "6", "7", "8", "9"}

\* the characters \s matches and str.strip() strips (those the model draws)
Whitespace == {" ", "\t", "\n"}

Range(s) == {s[i] : i \in 1..Len(s)}

\* the configuration tables of ingestion.py, key and value as character sequences
PLURAL_MAP ==
  {<<<<"O", "N", "I", "O", "N", "S">>,
     <<"O", "N", "I", "O", "N">>>>,
   <<<<"C", "A", "R", "R", "O", "T", "S">>,
     <<"C", "A", "R", "R", "O", "T">>>>,
   <<<<"P", "O", "T", "A", "T", "O", "E", "S">>,
     <<"P", "O", "T", "A", "T", "O">>>>,
   <<<<"T", "O", "M", "A", "T", "O", "E", "S">>,
     <<"T", "O", "M", "A", "T", "O">>>>,
   <<<<"E", "G", "G", "S">>,
     <<"E", "G", "G">>>>,
   <<<<"T", "I", "S", "S", "U", "E", "S">>,
     <<"T", "I", "S", "S", "U", "E">>>>,
   <<<<"C", "H", "I", "P", "S">>,
     <<"C", "H", "I", "P">>>>,
   <<<<"P", "I", "C", "K", "L", "E", "S">>,
     <<"P", "I", "C", "K", "L", "E">>>>,
   <<<<"S", "P", "O", "N", "G", "E", "S">>,
     <<"S", "P", "O", "N", "G", "E">>>>,
   <<<<"M", "U", "S", "H", "R", "O", "O", "M", "S">>,
     <<"M", "U", "S", "H", "R", "O", "O", "M">>>>,
   <<<<"B", "L", "U", "E", "B", "E", "R", "R", "I", "E", "S">>,
     <<"B", "L", "U", "E", "B", "E", "R", "R", "Y">>>>,
   <<<<"S", "T", "R", "A", "W", "B", "E", "R", "R", "I", "E", "S">>,
     <<"S", "T", "R", "A", "W", "B", "E", "R", "R", "Y">>>>,
   <<<<"G", "R", "A", "P", "E", "S">>,
     <<"G", "R", "A", "P", "E">>>>,
   <<<<"P", "E", "A", "S">>,
     <<"P", "E", "A">>>>,
   <<<<"A", "N", "C", "H", "O", "V", "I", "E", "S">>,
     <<"A", "N", "C", "H", "O", "V", "Y">>>>,
   <<<<"S", "A", "R", "D", "I", "N", "E", "S">>,
     <<"S", "A", "R", "D", "I", "N", "E">>>>,
   <<<<"G", "R", "E", "E", "N", "_", "B", "E", "A", "N", "S">>,
     <<"G", "R", "E", "E", "N", "_", "B", "E", "A", "N">>>>,
   <<<<"D", "I", "A", "P", "E", "R", "S">>,
     <<"D", "I", "A", "P", "E", "R">>>>,
   <<<<"R", "A", "Z", "O", "R", "S">>,
     <<"R", "A", "Z", "O", "R">>>>,
   <<<<"E", "X", "T", "E", "N", "S", "I", "O", "N", "_", "C", "O", "R", "D", "S">>,
     <<"E", "X", "T", "E", "N", "S", "I", "O", "N", "_", "C", "O", "R", "D">>>>,
   <<<<"L", "I", "G", "H", "T", "_", "B", "U", "L", "B", "S">>,
     <<"L", "I", "G", "H", "T", "_", "B", "U", "L", "B">>>>,
   <<<<"P", "O", "W", "E", "R", "_", "S", "T", "R", "I", "P", "S">>,
     <<"P", "O", "W", "E", "R", "_", "S", "T", "R", "I", "P">>>>,
   <<<<"T", "R", "A", "S", "H", "_", "B", "A", "G", "S">>,
     <<"T", "R", "A", "S", "H", "_", "B", "A", "G">>>>,
   <<<<"T", "R", "A", "S", "H", "_", "C", "A", "N", "S">>,
     <<"T", "R", "A", "S", "H", "_", "C", "A", "N">>>>,
   <<<<"B", "A", "T", "H", "_", "T", "O", "W", "E", "L", "S">>,
     <<"B", "A", "T", "H", "_", "T", "O", "W", "E", "L">>>>,
   <<<<"P", "A", "P", "E", "R", "_", "T", "O", "W", "E", "L", "S">>,
     <<"P", "A", "P", "E", "R", "_", "T", "O", "W", "E", "L">>>>,
   <<<<"C", "L", "E", "A", "N", "I", "N", "G", "_", "R", "A", "G", "S">>,
     <<"C", "L", "E", "A", "N", "I", "N", "G", "_", "R", "A", "G">>>>,
   <<<<"C", "E", "R", "E", "A", "L", "_", "B", "A", "R", "S">>,
     <<"C", "E", "R", "E", "A", "L", "_", "B", "A", "R">>>>,
   <<<<"B", "A", "B", "Y", "_", "W", "I", "P", "E", "S">>,
     <<"B", "A", "B", "Y", "_", "W", "I", "P", "E">>>>}

NO_STRIP_SUFFIXES ==
  {<<"C", "H", "E", "E", "S", "E">>,
   <<"R", "I", "C", "E">>,
   <<"S", "A", "U", "C", "E">>,
   <<"J", "U", "I", "C", "E">>,
   <<"G", "R", "E", "A", "S", "E">>,
   <<"M", "O", "U", "S", "S", "E">>,
   <<"L", "E", "T", "T", "U", "C", "E">>,
   <<"P", "R", "O", "D", "U", "C", "E">>,
   <<"G", "L", "U", "C", "O", "S", "E">>,
   <<"P", "U", "R", "P", "O", "S", "E">>,
   <<"C", "I", "T", "R", "U", "S">>,
   <<"A", "S", "P", "A", "R", "A", "G", "U", "S">>,
   <<"C", "O", "U", "S", "C", "O", "U", "S">>,
   <<"H", "U", "M", "M", "U", "S">>,
   <<"O", "K", "R", "A", "S">>}

(***************************************************************************)
(* Python string primitives used by normalize_product_name.                *)
(***************************************************************************)
RECURSIVE LStrip(_)
LStrip(s) ==
  IF s # <<>> /\ Head(s) \in Whitespace THEN LStrip(Tail(s)) ELSE s

RECURSIVE RStrip(_)
RStrip(s) ==
  IF s # <<>> /\ s[Len(s)] \in Whitespace
  THEN RStrip(SubSeq(s, 1, Len(s) - 1))
  ELSE s

\* str.strip()
Strip(s) == RStrip(LStrip(s))

UpperChar(c) ==
  IF \E i \in 1..Len(LowerLetters) : LowerLetters[i] = c
  THEN UpperLetters[CHOOSE i \in 1..Len(LowerLetters) : LowerLetters[i] = c]
  ELSE c

\* str.upper()
RECURSIVE Upper(_)
Upper(s) ==
  IF s = <<>> THEN <<>> ELSE <<UpperChar(Head(s))>> \o Upper(Tail(s))

\* str.replace(a, b) for single characters
RECURSIVE Replace(_, _, _)
Replace(s, a, b) ==
  IF s = <<>> THEN <<>>
  ELSE <<IF Head(s) = a THEN b ELSE Head(s)>> \o Replace(Tail(s), a, b)

\* str.endswith(suffix)
EndsWith(s, suffix) ==
  /\ Len(s) >= Len(suffix)
  /\ SubSeq(s, Len(s) - Len(suffix) + 1, Len(s)) = suffix

(***************************************************************************)
(* The regular expressions, as the matcher of Python's re runs them: a     *)
(* match is tried at each position from the left, and re.sub resumes       *)
(* after the match.  "." matches every character but "\n"; "$" matches at  *)
(* the end of the string and just before a final "\n".                     *)
(***************************************************************************)
\* the first position >= i that does not hold whitespace (Len(s)+1 if none)
RECURSIVE SkipWhitespace(_, _)
SkipWhitespace(s, i) ==
  IF i <= Len(s) /\ s[i] \in Whitespace THEN SkipWhitespace(s, i + 1) ELSE i

\* the first position >= i that holds a character of stop (Len(s)+1 if none)
RECURSIVE FindChar(_, _, _)
FindChar(s, i, stop) ==
  IF i <= Len(s) /\ s[i] \notin stop THEN FindChar(s, i + 1, stop) ELSE i

\* r"\s*\(.*?\)" tried at position i: the position after the match, 0 if none
ParenMatchEnd(s, i) ==
  LET open  == SkipWhitespace(s, i)
      close == FindChar(s, open + 1, {")", "\n"})
  IN  IF /\ open <= Len(s)
         /\ s[open] = "("
         /\ close <= Len(s)
         /\ s[close] = ")"
      THEN close + 1
      ELSE 0

\* r"\s*-\s+.*$" tried at position i: the position after the match, 0 if none
DashMatchEnd(s, i) ==
  LET dash == SkipWhitespace(s, i)
      rest == SkipWhitespace(s, dash + 1)
      stop == FindChar(s, rest, {"\n"})
  IN  IF /\ dash <= Len(s)
         /\ s[dash] = "-"
         /\ rest > dash + 1
         /\ stop >= Len(s)
      THEN stop
      ELSE 0

\* re.sub(r"\s*\(.*?\)", "", s), scanning from position i
RECURSIVE SubParen(_, _)
SubParen(s, i) ==
  IF i > Len(s) THEN <<>>
  ELSE LET e == ParenMatchEnd(s, i)
       IN  IF e # 0 THEN SubParen(s, e) ELSE <<s[i]>> \o SubParen(s, i + 1)

\* re.sub(r"\s*-\s+.*$", "", s), scanning from position i
RECURSIVE SubDash(_, _)
SubDash(s, i) ==
  IF i > Len(s) THEN <<>>
  ELSE LET e == DashMatchEnd(s, i)
       IN  IF e # 0 THEN SubDash(s, e) ELSE <<s[i]>> \o SubDash(s, i + 1)

KeepChar(c) == c \in Range(UpperLetters) \cup Digits \cup Whitespace

\* re.sub(r"[^A-Z0-9\s]", "", s)
RemovePunctuation(s) == SelectSeq(s, KeepChar)

\* re.sub(r"\s+", " ", s)
RECURSIVE CollapseSpaces(_)
CollapseSpaces(s) ==
  IF s = <<>> THEN <<>>
  ELSE IF Head(s) \in Whitespace
       THEN <<" ">> \o CollapseSpaces(LStrip(s))
       ELSE <<Head(s)>> \o CollapseSpaces(Tail(s))

(***************************************************************************)
(* normalize_product_name                                                  *)
(***************************************************************************)
\* lines 110-125: the cleaned name
CleanName(raw_name) ==
  Strip(CollapseSpaces(RemovePunctuation(
    SubDash(SubParen(Upper(Strip(raw_name)), 1), 1))))

\* line 128: the SKU before the plural rules
ProvisionalSku(raw_name) == Replace(CleanName(raw_name), " ", "_")

InPluralMap(sku) == \E e \in PLURAL_MAP : e[1] = sku

PluralMapGet(sku) == (CHOOSE e \in PLURAL_MAP : e[1] = sku)[2]

\* a depluralisation that forgets the length guard of line 136
DepluralizeAnyLength(sku) ==
  IF InPluralMap(sku) THEN PluralMapGet(sku)
  ELSE IF /\ sku \notin NO_STRIP_SUFFIXES
          /\ ~(\/ EndsWith(sku, <<"S", "S">>)
               \/ EndsWith(sku, <<"U", "S">>)
               \/ EndsWith(sku, <<"I", "S">>))
          /\ EndsWith(sku, <<"S">>)
       THEN SubSeq(sku, 1, Len(sku) - 1)
       ELSE sku

\* lines 130-137
Depluralize(sku) ==
  IF InPluralMap(sku) THEN PluralMapGet(sku)
  ELSE IF /\ sku \notin NO_STRIP_SUFFIXES
          /\ ~(\/ EndsWith(sku, <<"S", "S">>)
               \/ EndsWith(sku, <<"U", "S">>)
               \/ EndsWith(sku, <<"I", "S">>))
          /\ EndsWith(sku, <<"S">>)
          /\ Len(sku) > 3
       THEN SubSeq(sku, 1, Len(sku) - 1)
       ELSE sku

\* a normaliser that takes the display name from the cleaned name, not the SKU
NormalizeNameFromCleaned(raw_name) ==
  [sku  |-> Depluralize(ProvisionalSku(raw_name)),
   base |-> CleanName(raw_name)]

\* lines 96-140: (normalized_sku, base_product_name)
normalize_product_name(raw_name) ==
  LET sku == Depluralize(ProvisionalSku(raw_name))
  IN  [sku |-> sku, base |-> Replace(sku, "_", " ")]

(***************************************************************************)
(* State.                                                                  *)
(***************************************************************************)
VARIABLES
  \* a call of normalize_product_name and of its re-application
  raw_name,         \* the argument
  variant,          \* a second argument, differing in case and whitespace
  nstage,           \* "input", "normalized", "renormalized"
  result,           \* normalize_product_name(raw_name)
  variant_result,   \* normalize_product_name(variant)
  renormalized,     \* normalize_product_name(result.base)
  \* a run of main()
  pc,               \* the stage main() has completed, or "failed"
  retail_csv,       \* data/Retail.csv: Missing or its rows
  warehouse_csv,    \* data/Warehouse.csv: Missing or its rows
  retail_df,
  warehouse_df,
  products_df,
  db,               \* database.db: its three tables
  db_before,        \* database.db as it was when the run started
  run,              \* number of the run
  \* the hand-off between producer and consumer
  records,          \* the matched retail records given to the producer
  produced,         \* how many of them the producer has enqueued
  sentinel_sent,    \* the producer has enqueued the sentinel
  queue,            \* the hand-off queue
  consumer,         \* "STARTED", "RUNNING", "DRAINING", "STOPPED"
  sink              \* the rows written to retail_transactions, in write order

varsNorm ==
  <<raw_name, variant, nstage, result, variant_result, renormalized>>

varsRun ==
  <<pc, retail_csv, warehouse_csv, retail_df, warehouse_df, products_df,
    db, db_before, run>>

varsPipe == <<records, produced, sentinel_sent, queue, consumer, sink>>

vars == <<varsNorm, varsRun, varsPipe>>

\* a value that is not there yet
None == <<"None">>

(***************************************************************************)
(* Arguments of normalize_product_name: every string over Alphabet up to   *)
(* MaxLen characters, and the names of the docstring and of the tables.    *)
(***************************************************************************)
Alphabet == {"A", "S", " ", "\n", "(", ")", "-"}

Generated == UNION {[1..n -> Alphabet] : n \in 0..MaxLen}

Examples ==
  {<<"o", "n", "i", "o", "n", "s">>,
   <<"t", "e", "a", " ", "(", "j", "a", "s", "m", "i", "n", "e", ")">>,
   <<"H", "a", "i", "r", " ", "G", "e", "l">>,
   <<"E", "g", "g", " ", "(", "T", "u", "r", "k", "e", "y", ")">>,
   <<"S", "o", "a", "p", " ", "-", " ", "L", "e", "m", "o", "n">>,
   <<"O", "k", "r", "a", "s">>,
   <<"C", "i", "t", "r", "u", "s">>,
   <<"P", "e", "a", "s">>,
   <<"I", "r", "i", "s">>,
   <<"G", "l", "a", "s", "s">>,
   <<"B", "u", "s">>,
   <<"G", "r", "e", "e", "n", " ", "B", "e", "a", "n", "s">>}

RawNames == Generated \cup Examples

LowerChar(c) ==
  IF \E i \in 1..Len(UpperLetters) : UpperLetters[i] = c
  THEN LowerLetters[CHOOSE i \in 1..Len(UpperLetters) : UpperLetters[i] = c]
  ELSE c

\* s with one letter in the other case, one whitespace character replaced by
\* another, or one whitespace character added at an end or next to whitespace
Variants(s) ==
  {[s EXCEPT ![i] = LowerChar(s[i])] : i \in 1..Len(s)}
  \cup {[s EXCEPT ![i] = UpperChar(s[i])] : i \in 1..Len(s)}
  \cup {[s EXCEPT ![i] = w] :
          i \in {k \in 1..Len(s) : s[k] \in Whitespace}, w \in {" ", "\n"}}
  \cup {SubSeq(s, 1, i) \o <<w>> \o SubSeq(s, i + 1, Len(s)) :
          i \in {k \in 0..Len(s) :
                   \/ k = 0
                   \/ k = Len(s)
                   \/ s[k] \in Whitespace
                   \/ s[k + 1] \in Whitespace},
          w \in {" ", "\n"}}

InitNorm ==
  /\ raw_name \in RawNames
  /\ variant \in Variants(raw_name)
  /\ nstage = "input"
  /\ result = None
  /\ variant_result = None
  /\ renormalized = None

IdleNorm ==
  /\ raw_name = <<>>
  /\ variant = <<>>
  /\ nstage = "idle"
  /\ result = None
  /\ variant_result = None
  /\ renormalized = None

\* normalize_product_name applied to the argument and to its variant
Normalize ==
  /\ nstage = "input"
  /\ result' = normalize_product_name(raw_name)
  /\ variant_result' = normalize_product_name(variant)
  /\ nstage' = "normalized"
  /\ UNCHANGED <<raw_name, variant, renormalized, varsRun, varsPipe>>

\* normalize_product_name applied to the base name it returned
Renormalize ==
  /\ nstage = "normalized"
  /\ renormalized' = normalize_product_name(result.base)
  /\ nstage' = "renormalized"
  /\ UNCHANGED <<raw_name, variant, result, variant_result, varsRun, varsPipe>>

(***************************************************************************)
(* Tabular data.  A cell is a character sequence or NaN (pandas' missing   *)
(* value); a DataFrame is the sequence of its rows.  Columns the stages    *)
(* only carry along (order_date, quantity, city, store_type, online_flag,  *)
(* stock_quantity) are left out.                                           *)
(***************************************************************************)
NaN == <<"NaN">>

\* str(NaN), as Series.astype(str) renders a missing value
AsTypeStr(cell) == IF cell = NaN THEN <<"n", "a", "n">> ELSE cell

SeqsUpTo(S, n) == UNION {[1..k -> S] : k \in 0..n}

\* values of the Product column of Retail.csv
FieldPlain == <<"E", "g", "g", "s">>
FieldTwo ==
  <<"[", "'", "O", "n", "i", "o", "n", "s", "'", ",", " ", "'", "E", "g", "g",
    " ", "(", "T", "u", "r", "k", "e", "y", ")", "'", "]">>
FieldEmptyList == <<"[", "]">>
FieldBlankItems == <<"[", "'", "'", ",", " ", "'", " ", "'", "]">>
FieldNumber == <<"7">>
FieldSpace == <<" ">>

\* ast.literal_eval on those values: a list of items (each with its truth
\* value and its str()), another literal, or ValueError / SyntaxError
LiteralEval(val) ==
  CASE val = FieldTwo ->
         [kind |-> "list",
          items |-> <<[truthy |-> TRUE, str |-> <<"O", "n", "i", "o", "n", "s">>],
                      [truthy |-> TRUE,
                       str |-> <<"E", "g", "g", " ", "(", "T", "u", "r", "k",
                                 "e", "y", ")">>]>>]
    [] val = FieldEmptyList -> [kind |-> "list", items |-> <<>>]
    [] val = FieldBlankItems ->
         [kind |-> "list",
          items |-> <<[truthy |-> FALSE, str |-> <<>>],
                      [truthy |-> TRUE, str |-> <<" ">>]>>]
    [] val = FieldNumber -> [kind |-> "other", items |-> <<>>]
    [] OTHER -> [kind |-> "error", items |-> <<>>]

RetailRowSamples ==
  {[order_id |-> <<"1">>, product_list |-> FieldPlain],
   [order_id |-> <<"2">>, product_list |-> FieldTwo],
   [order_id |-> <<"3">>, product_list |-> FieldEmptyList],
   [order_id |-> <<"4">>, product_list |-> FieldBlankItems],
   [order_id |-> <<"5">>, product_list |-> FieldNumber],
   [order_id |-> <<"6">>, product_list |-> FieldSpace],
   [order_id |-> NaN, product_list |-> FieldPlain],
   [order_id |-> <<"7">>, product_list |-> NaN]}

WarehouseRowSamples ==
  {[product_name |-> <<"O", "n", "i", "o", "n">>],
   [product_name |-> <<"E", "G", "G", "S">>],
   [product_name |-> <<"M", "i", "l", "k">>],
   [product_name |-> NaN]}

\* the rows drawn when several runs follow each other
RunRetailRowSamples ==
  {[order_id |-> <<"1">>, product_list |-> FieldPlain],
   [order_id |-> <<"2">>, product_list |-> FieldTwo]}

RunWarehouseRowSamples ==
  {[product_name |-> <<"O", "n", "i", "o", "n">>],
   [product_name |-> <<"M", "i", "l", "k">>]}

\* a CSV file: absent (pd.read_csv raises) or its rows
CsvFiles(rows, n) ==
  {[exists |-> FALSE, rows |-> <<>>]}
  \cup {[exists |-> TRUE, rows |-> r] : r \in SeqsUpTo(rows, n)}

(***************************************************************************)
(* The stages of main(), as functions of the frames.                       *)
(***************************************************************************)
\* load_retail_data, lines 157-160: rows with a NULL order_id or product_list go
LoadRetailFrame(rows) ==
  LET Keep(r) == r.order_id # NaN /\ r.product_list # NaN
  IN  SelectSeq(rows, Keep)

\* load_warehouse_data, lines 209-212: rows with a NULL product_name go
LoadWarehouseFrame(rows) ==
  LET Keep(r) == r.product_name # NaN
  IN  SelectSeq(rows, Keep)

\* [str(p).strip() for p in products if p]
RECURSIVE StrippedTruthy(_)
StrippedTruthy(items) ==
  IF items = <<>> THEN <<>>
  ELSE (IF Head(items).truthy THEN <<Strip(Head(items).str)>> ELSE <<>>)
       \o StrippedTruthy(Tail(items))

\* parse_product_list, lines 176-186
parse_product_list(val) ==
  IF val = NaN THEN <<>>
  ELSE LET products == LiteralEval(val)
       IN  IF products.kind = "list"
           THEN StrippedTruthy(products.items)
           ELSE <<Strip(val)>>

\* DataFrame.explode of one row: a row per element, and a row holding NaN
\* for an empty list
ExplodeRow(r) ==
  LET names == parse_product_list(r.product_list)
  IN  IF names = <<>>
      THEN <<[order_id |-> r.order_id, product_name |-> NaN]>>
      ELSE [i \in 1..Len(names) |->
              [order_id |-> r.order_id, product_name |-> names[i]]]

RECURSIVE ExplodeRows(_)
ExplodeRows(df) ==
  IF df = <<>> THEN <<>> ELSE ExplodeRow(Head(df)) \o ExplodeRows(Tail(df))

\* explode_retail_products, lines 188-193
explode_retail_products(df) ==
  LET NotEmpty(r) == Strip(AsTypeStr(r.product_name)) # <<>>
  IN  SelectSeq(ExplodeRows(df), NotEmpty)

\* raw_name.strip() raises AttributeError on a NaN cell
NormalizationRaises(df) == \E i \in 1..Len(df) : df[i].product_name = NaN

\* lines 237-239: the two derived columns of the retail frame
NormalizeRetailFrame(df) ==
  [i \in 1..Len(df) |->
     [order_id          |-> df[i].order_id,
      product_name      |-> df[i].product_name,
      normalized_sku    |-> normalize_product_name(df[i].product_name).sku,
      base_product_name |-> normalize_product_name(df[i].product_name).base]]

\* lines 242-244: the two derived columns of the warehouse frame
NormalizeWarehouseFrame(df) ==
  [i \in 1..Len(df) |->
     [product_name      |-> df[i].product_name,
      normalized_sku    |-> normalize_product_name(df[i].product_name).sku,
      base_product_name |-> normalize_product_name(df[i].product_name).base]]

\* df[["normalized_sku", "base_product_name"]]
CatalogColumns(df) ==
  [i \in 1..Len(df) |->
     [normalized_sku    |-> df[i].normalized_sku,
      base_product_name |-> df[i].base_product_name]]

\* drop_duplicates(keep="first") on whole rows
RECURSIVE DropDuplicates(_)
DropDuplicates(df) ==
  IF df = <<>> THEN <<>>
  ELSE LET init == DropDuplicates(SubSeq(df, 1, Len(df) - 1))
           last == df[Len(df)]
       IN  IF last \in Range(init) THEN init ELSE Append(init, last)

\* drop_duplicates(subset=["normalized_sku"], keep="first")
RECURSIVE DropDuplicateSkus(_)
DropDuplicateSkus(df) ==
  IF df = <<>> THEN <<>>
  ELSE LET init == DropDuplicateSkus(SubSeq(df, 1, Len(df) - 1))
           last == df[Len(df)]
       IN  IF \E p \in Range(init) : p.normalized_sku = last.normalized_sku
           THEN init
           ELSE Append(init, last)

\* a catalog built by concatenation alone
ConcatCatalog(first_df, second_df) ==
  DropDuplicates(CatalogColumns(first_df))
    \o DropDuplicates(CatalogColumns(second_df))

\* lines 247-251: the products master table
BuildCatalog(first_df, second_df) ==
  DropDuplicateSkus(
    DropDuplicates(CatalogColumns(first_df))
      \o DropDuplicates(CatalogColumns(second_df)))

SkuSet(df) == {df[i].normalized_sku : i \in 1..Len(df)}

WithMatch(r, flag) ==
  [order_id          |-> r.order_id,
   product_name      |-> r.product_name,
   normalized_sku    |-> r.normalized_sku,
   base_product_name |-> r.base_product_name,
   warehouse_match   |-> flag]

\* a matcher that keeps the matched rows only
MatchInnerJoin(r_df, w_df) ==
  LET flagged == [i \in 1..Len(r_df) |->
                    WithMatch(r_df[i],
                              IF r_df[i].normalized_sku \in SkuSet(w_df)
                              THEN "TRUE" ELSE "FALSE")]
      Matched(r) == r.warehouse_match = "TRUE"
  IN  SelectSeq(flagged, Matched)

\* match_retail_to_warehouse, lines 267-270
match_retail_to_warehouse(r_df, w_df) ==
  LET warehouse_skus == SkuSet(w_df)
  IN  [i \in 1..Len(r_df) |->
         WithMatch(r_df[i],
                   IF r_df[i].normalized_sku \in warehouse_skus
                   THEN "TRUE" ELSE "FALSE")]

\* lines 330-333: the columns written to retail_transactions
RetailOut(df) ==
  [i \in 1..Len(df) |->
     [order_id        |-> df[i].order_id,
      product_name    |-> df[i].product_name,
      normalized_sku  |-> df[i].normalized_sku,
      warehouse_match |-> df[i].warehouse_match]]

\* line 337: the columns written to warehouse_inventory
WarehouseOut(df) ==
  [i \in 1..Len(df) |->
     [product_name   |-> df[i].product_name,
      normalized_sku |-> df[i].normalized_sku]]

\* database.db: for each table, whether it exists and its rows in rowid order
NoTable == [exists |-> FALSE, rows |-> <<>>]

EmptyDb ==
  [retail_transactions |-> NoTable,
   warehouse_inventory |-> NoTable,
   products            |-> NoTable]

\* to_sql(..., if_exists="append") on a table
AppendRows(table, rows) == [exists |-> TRUE, rows |-> table.rows \o rows]

\* a write that leaves out DROP TABLE IF EXISTS
WriteWithoutDrop(old, r_df, w_df, p_df) ==
  [retail_transactions |-> AppendRows(old.retail_transactions, RetailOut(r_df)),
   warehouse_inventory |-> AppendRows(old.warehouse_inventory, WarehouseOut(w_df)),
   products            |-> AppendRows(old.products, p_df)]

\* write_to_database, lines 292-348: drop, create, append, commit
WriteTables(old, r_df, w_df, p_df) ==
  LET created == [exists |-> TRUE, rows |-> <<>>]
  IN  [retail_transactions |-> AppendRows(created, RetailOut(r_df)),
       warehouse_inventory |-> AppendRows(created, WarehouseOut(w_df)),
       products            |-> AppendRows(created, p_df)]

(***************************************************************************)
(* A run of main(): one action per stage.  An exception raised by a stage  *)
(* propagates out of main(), which ends the run ("failed").                *)
(***************************************************************************)
InitRun(retail_files, warehouse_files) ==
  /\ pc = "start"
  /\ retail_csv \in retail_files
  /\ warehouse_csv \in warehouse_files
  /\ retail_df = <<>>
  /\ warehouse_df = <<>>
  /\ products_df = <<>>
  /\ db = EmptyDb
  /\ db_before = EmptyDb
  /\ run = 1

IdleRun ==
  /\ pc = "idle"
  /\ retail_csv = [exists |-> FALSE, rows |-> <<>>]
  /\ warehouse_csv = [exists |-> FALSE, rows |-> <<>>]
  /\ retail_df = <<>>
  /\ warehouse_df = <<>>
  /\ products_df = <<>>
  /\ db = EmptyDb
  /\ db_before = EmptyDb
  /\ run = 0

\* step 1, load_retail_data: pd.read_csv raises when Retail.csv is missing
LoadRetailData ==
  /\ pc = "start"
  /\ IF retail_csv.exists
     THEN /\ retail_df' = LoadRetailFrame(retail_csv.rows)
          /\ pc' = "retail_loaded"
     ELSE /\ pc' = "failed"
          /\ UNCHANGED retail_df
  /\ UNCHANGED <<retail_csv, warehouse_csv, warehouse_df, products_df,
                 db, db_before, run, varsNorm, varsPipe>>

\* step 2, explode_retail_products
ExplodeRetailProducts ==
  /\ pc = "retail_loaded"
  /\ retail_df' = explode_retail_products(retail_df)
  /\ pc' = "exploded"
  /\ UNCHANGED <<retail_csv, warehouse_csv, warehouse_df, products_df,
                 db, db_before, run, varsNorm, varsPipe>>

\* a loader that takes a missing Warehouse.csv for an empty one
LoadWarehouseDataLenient ==
  /\ pc = "exploded"
  /\ warehouse_df' = LoadWarehouseFrame(warehouse_csv.rows)
  /\ pc' = "warehouse_loaded"
  /\ UNCHANGED <<retail_csv, warehouse_csv, retail_df, products_df,
                 db, db_before, run, varsNorm, varsPipe>>

\* step 3, load_warehouse_data: pd.read_csv raises when Warehouse.csv is missing
LoadWarehouseData ==
  /\ pc = "exploded"
  /\ IF warehouse_csv.exists
     THEN /\ warehouse_df' = LoadWarehouseFrame(warehouse_csv.rows)
          /\ pc' = "warehouse_loaded"
     ELSE /\ pc' = "failed"
          /\ UNCHANGED warehouse_df
  /\ UNCHANGED <<retail_csv, warehouse_csv, retail_df, products_df,
                 db, db_before, run, varsNorm, varsPipe>>

\* step 4, apply_normalization
ApplyNormalization ==
  /\ pc = "warehouse_loaded"
  /\ IF NormalizationRaises(retail_df) \/ NormalizationRaises(warehouse_df)
     THEN /\ pc' = "failed"
          /\ UNCHANGED <<retail_df, warehouse_df, products_df>>
     ELSE /\ retail_df' = NormalizeRetailFrame(retail_df)
          /\ warehouse_df' = NormalizeWarehouseFrame(warehouse_df)
          /\ products_df' = BuildCatalog(NormalizeRetailFrame(retail_df),
                                         NormalizeWarehouseFrame(warehouse_df))
          /\ pc' = "normalized"
  /\ UNCHANGED <<retail_csv, warehouse_csv, db, db_before, run,
                 varsNorm, varsPipe>>

\* step 5, match_retail_to_warehouse
MatchRetailToWarehouse ==
  /\ pc = "normalized"
  /\ retail_df' = match_retail_to_warehouse(retail_df, warehouse_df)
  /\ pc' = "matched"
  /\ UNCHANGED <<retail_csv, warehouse_csv, warehouse_df, products_df,
                 db, db_before, run, varsNorm, varsPipe>>

\* step 6, write_to_database
WriteToDatabase ==
  /\ pc = "matched"
  /\ db' = WriteTables(db, retail_df, warehouse_df, products_df)
  /\ pc' = "done"
  /\ UNCHANGED <<retail_csv, warehouse_csv, retail_df, warehouse_df,
                 products_df, db_before, run, varsNorm, varsPipe>>

\* ingestion.py is started again, over the database the last run left
StartRun ==
  /\ pc \in {"done", "failed"}
  /\ run < MaxRuns
  /\ retail_csv' \in CsvFiles(RunRetailRowSamples, RunRows)
  /\ warehouse_csv' \in CsvFiles(RunWarehouseRowSamples, RunRows)
  /\ retail_df' = <<>>
  /\ warehouse_df' = <<>>
  /\ products_df' = <<>>
  /\ db_before' = db
  /\ run' = run + 1
  /\ pc' = "start"
  /\ UNCHANGED <<db, varsNorm, varsPipe>>

(***************************************************************************)
(* The ingestion pipeline of the design (sections 4.6 and 5): one          *)
(* producer, one FIFO queue, one consumer that alone writes to the         *)
(* transactions table.  ingestion.py holds no queue: write_to_database     *)
(* inserts the whole frame with one to_sql call.                           *)
(***************************************************************************)
RecordSamples ==
  {[order_id |-> <<"1">>, normalized_sku |-> <<"E", "G", "G">>,
    warehouse_match |-> "TRUE"],
   [order_id |-> <<"2">>, normalized_sku |-> <<"O", "N", "I", "O", "N">>,
    warehouse_match |-> "TRUE"],
   [order_id |-> <<"2">>, normalized_sku |-> <<"E", "G", "G">>,
    warehouse_match |-> "TRUE"],
   [order_id |-> <<"5">>, normalized_sku |-> <<"7">>,
    warehouse_match |-> "FALSE"]}

\* sequences of distinct records
RecordStreams ==
  {s \in SeqsUpTo(RecordSamples, MaxRecords) :
     \A i, j \in 1..Len(s) : i # j => s[i] # s[j]}

DataEvent(record) == [event_type |-> "RETAIL_TRANSACTION", payload |-> record]

Sentinel == [event_type |-> "SENTINEL", payload |-> None]

InitPipe ==
  /\ records \in RecordStreams
  /\ produced = 0
  /\ sentinel_sent = FALSE
  /\ queue = <<>>
  /\ consumer = "STARTED"
  /\ sink = <<>>

IdlePipe ==
  /\ records = <<>>
  /\ produced = 0
  /\ sentinel_sent = FALSE
  /\ queue = <<>>
  /\ consumer = "IDLE"
  /\ sink = <<>>

\* the producer enqueues the next record of the stream
ProducerEnqueue ==
  /\ produced < Len(records)
  /\ queue' = Append(queue, DataEvent(records[produced + 1]))
  /\ produced' = produced + 1
  /\ UNCHANGED <<records, sentinel_sent, consumer, sink, varsNorm, varsRun>>

\* a producer that may signal the end before the stream is exhausted
ProducerSentinelEarly ==
  /\ ~sentinel_sent
  /\ queue' = Append(queue, Sentinel)
  /\ sentinel_sent' = TRUE
  /\ produced' = Len(records)
  /\ UNCHANGED <<records, consumer, sink, varsNorm, varsRun>>

\* after the last record the producer enqueues the sentinel, once
ProducerSentinel ==
  /\ produced = Len(records)
  /\ ~sentinel_sent
  /\ queue' = Append(queue, Sentinel)
  /\ sentinel_sent' = TRUE
  /\ UNCHANGED <<records, produced, consumer, sink, varsNorm, varsRun>>

\* the consumer's unit of execution starts
ConsumerStart ==
  /\ consumer = "STARTED"
  /\ consumer' = "RUNNING"
  /\ UNCHANGED <<records, produced, sentinel_sent, queue, sink,
                 varsNorm, varsRun>>

\* the consumer takes a record event and writes it to the sink
ConsumerWrite ==
  /\ consumer = "RUNNING"
  /\ queue # <<>>
  /\ Head(queue).event_type = "RETAIL_TRANSACTION"
  /\ sink' = Append(sink, Head(queue).payload)
  /\ queue' = Tail(queue)
  /\ UNCHANGED <<records, produced, sentinel_sent, consumer, varsNorm, varsRun>>

\* the consumer takes the sentinel: it stops consuming
ConsumerSentinel ==
  /\ consumer = "RUNNING"
  /\ queue # <<>>
  /\ Head(queue).event_type = "SENTINEL"
  /\ queue' = Tail(queue)
  /\ consumer' = "DRAINING"
  /\ UNCHANGED <<records, produced, sentinel_sent, sink, varsNorm, varsRun>>

\* the consumer commits and terminates
ConsumerStop ==
  /\ consumer = "DRAINING"
  /\ consumer' = "STOPPED"
  /\ UNCHANGED <<records, produced, sentinel_sent, queue, sink,
                 varsNorm, varsRun>>

(***************************************************************************)
(* Specifications.                                                         *)
(***************************************************************************)
\* calls of normalize_product_name
InitNormalizer == InitNorm /\ IdleRun /\ IdlePipe

NextNormalizer == Normalize \/ Renormalize

SpecNorm == InitNormalizer /\ [][NextNormalizer]_vars

\* one run of main() over an empty database
Init ==
  /\ InitRun(CsvFiles(RetailRowSamples, MaxRetailRows),
             CsvFiles(WarehouseRowSamples, MaxWarehouseRows))
  /\ IdleNorm
  /\ IdlePipe

Next ==
  \/ LoadRetailData
  \/ ExplodeRetailProducts
  \/ LoadWarehouseData
  \/ ApplyNormalization
  \/ MatchRetailToWarehouse
  \/ WriteToDatabase

Spec == Init /\ [][Next]_vars

\* runs of main() that follow each other over the same database
InitRuns ==
  /\ InitRun(CsvFiles(RunRetailRowSamples, RunRows),
             CsvFiles(RunWarehouseRowSamples, RunRows))
  /\ IdleNorm
  /\ IdlePipe

NextRuns == Next \/ StartRun

SpecRuns == InitRuns /\ [][NextRuns]_vars

\* the producer and the consumer
InitPipeline == InitPipe /\ IdleNorm /\ IdleRun

NextPipeline ==
  \/ ProducerEnqueue
  \/ ProducerSentinel
  \/ ConsumerStart
  \/ ConsumerWrite
  \/ ConsumerSentinel
  \/ ConsumerStop

SpecPipeline == InitPipeline /\ [][NextPipeline]_vars

(***************************************************************************)
(* Properties.                                                             *)
(***************************************************************************)
\* C1: normalising the base name that normalize_product_name returned gives
\* the same (sku, base_name) pair again.
NormalizationIdempotent ==
  nstage = "renormalized" => renormalized = result

\* trimmed, upper-cased, every run of whitespace collapsed to one space
Canon(s) == CollapseSpaces(Upper(Strip(s)))

\* C2: two raw names that are equal after trimming, upper-casing and
\* collapsing whitespace runs normalise to the same (sku, base_name) pair.
NormalizationDeterministic ==
  (nstage \in {"normalized", "renormalized"} /\ Canon(raw_name) = Canon(variant))
    => result = variant_result

MatchingIsMembership ==
  [][MatchRetailToWarehouse =>
       LET out == retail_df'
           matched == {i \in 1..Len(out) : out[i].warehouse_match = "TRUE"}
           unmatched == {i \in 1..Len(out) : out[i].warehouse_match = "FALSE"}
       IN  /\ Len(out) = Len(retail_df)
           /\ \A i \in 1..Len(out) :
                /\ out[i].order_id = retail_df[i].order_id
                /\ out[i].product_name = retail_df[i].product_name
                /\ out[i].normalized_sku = retail_df[i].normalized_sku
                /\ (out[i].warehouse_match = "TRUE") <=>
                     (retail_df[i].normalized_sku \in SkuSet(warehouse_df))
           /\ (SkuSet(warehouse_df) = {}) => (matched = {})
           /\ Cardinality(matched) + Cardinality(unmatched) = Len(retail_df)]_vars

MatchingWitness ==
  /\ pc = "matched"
  /\ Len(retail_df) = 3
  /\ retail_df[1].warehouse_match = "FALSE"
  /\ retail_df[2].warehouse_match = "TRUE"
  /\ retail_df[3].normalized_sku # retail_df[2].normalized_sku

\* the records one retained row stands for: the parsed list's length, or 1
\* when the field does not parse or parses to a non-list
ParsedLength(val) ==
  IF LiteralEval(val).kind = "list" THEN Len(LiteralEval(val).items) ELSE 1

\* how many of those have an empty name
RECURSIVE EmptyItems(_)
EmptyItems(items) ==
  IF items = <<>> THEN 0
  ELSE (IF Strip(Head(items).str) = <<>> THEN 1 ELSE 0) + EmptyItems(Tail(items))

EmptyNames(val) ==
  IF LiteralEval(val).kind = "list"
  THEN EmptyItems(LiteralEval(val).items)
  ELSE IF Strip(val) = <<>> THEN 1 ELSE 0

RECURSIVE ExpectedExploded(_)
ExpectedExploded(df) ==
  IF df = <<>> THEN 0
  ELSE ParsedLength(Head(df).product_list) - EmptyNames(Head(df).product_list)
       + ExpectedExploded(Tail(df))

\* C5: explosion outputs, over the retained rows, the parsed lengths minus the
\* empty names, and no output row has an empty or missing product name.
ExplosionCountPreserving ==
  [][ExplodeRetailProducts =>
       /\ Len(retail_df') = ExpectedExploded(retail_df)
       /\ \A i \in 1..Len(retail_df') :
            retail_df'[i].product_name \notin {NaN, <<>>}]_vars

\* C6: the catalog holds no SKU twice and is no larger than the distinct
\* retail SKUs plus the distinct warehouse SKUs.
CatalogUnique ==
  pc \in {"normalized", "matched", "done"} =>
    /\ \A i, j \in 1..Len(products_df) :
         products_df[i].normalized_sku = products_df[j].normalized_sku => i = j
    /\ Len(products_df) <=
         Cardinality(SkuSet(retail_df)) + Cardinality(SkuSet(warehouse_df))

CatalogUniqueWitness ==
  /\ pc = "normalized"
  /\ Len(products_df) = 2
  /\ SkuSet(retail_df) \cap SkuSet(warehouse_df) # {}
  /\ SkuSet(retail_df) # SkuSet(warehouse_df)

\* C7: a run that finds Retail.csv or Warehouse.csv missing stops before the
\* write stage and leaves the database as it was when the run started.
MissingFileLeavesDatabase ==
  (pc # "idle" /\ (~retail_csv.exists \/ ~warehouse_csv.exists)) =>
    /\ db = db_before
    /\ pc \in {"start", "retail_loaded", "exploded", "failed"}

MissingFileWitness ==
  /\ pc = "failed"
  /\ retail_csv.exists
  /\ ~warehouse_csv.exists
  /\ run = 2
  /\ db.retail_transactions.rows # <<>>
  /\ db.products.rows # <<>>

\* C8: when a run has succeeded, each table holds exactly the rows that run
\* produced, whatever the earlier runs left in the database.
TablesHoldLastRun ==
  pc = "done" =>
    /\ db.retail_transactions = [exists |-> TRUE, rows |-> RetailOut(retail_df)]
    /\ db.warehouse_inventory = [exists |-> TRUE, rows |-> WarehouseOut(warehouse_df)]
    /\ db.products = [exists |-> TRUE, rows |-> products_df]

TablesHoldLastRunWitness ==
  /\ pc = "done"
  /\ run = 2
  /\ db_before.retail_transactions.rows # <<>>
  /\ db_before.warehouse_inventory.rows # <<>>
  /\ db.retail_transactions.rows # <<>>
  /\ db.retail_transactions # db_before.retail_transactions
  /\ db.warehouse_inventory # db_before.warehouse_inventory

\* the final SKU the depluralisation rules give a provisional SKU
RuleSku(p) ==
  IF p \in {e[1] : e \in PLURAL_MAP}
  THEN (CHOOSE e \in PLURAL_MAP : e[1] = p)[2]
  ELSE IF \/ p \in NO_STRIP_SUFFIXES
          \/ EndsWith(p, <<"S", "S">>)
          \/ EndsWith(p, <<"U", "S">>)
          \/ EndsWith(p, <<"I", "S">>)
       THEN p
       ELSE IF p # <<>> /\ p[Len(p)] = "S" /\ Len(p) > 3
            THEN SubSeq(p, 1, Len(p) - 1)
            ELSE p

\* C9: the final SKU is the override entry of the provisional SKU, else the
\* provisional SKU unchanged when excluded or ending in SS, US or IS, else
\* without its last character when it ends in S and is longer than 3, else
\* unchanged; the base name is the final SKU with underscores as spaces.
DepluralizationRule ==
  nstage \in {"normalized", "renormalized"} =>
    /\ result.sku = RuleSku(ProvisionalSku(raw_name))
    /\ result.base = Replace(result.sku, "_", " ")
    /\ variant_result.sku = RuleSku(ProvisionalSku(variant))
    /\ variant_result.base = Replace(variant_result.sku, "_", " ")

DepluralizationWitness ==
  /\ nstage = "normalized"
  /\ ProvisionalSku(raw_name) = <<"A", "A", "A", "S">>
  /\ result.sku = <<"A", "A", "A">>
  /\ variant # raw_name
  /\ variant_result = result

\* the (sku, name) pairs of both frames
AllPairs == Range(CatalogColumns(retail_df)) \cup Range(CatalogColumns(warehouse_df))

\* C10: the base name is the SKU with underscores as spaces, so rows with the
\* same SKU carry the same name; the catalog has exactly one entry per SKU of
\* either source, and building it warehouse-first gives the same entries.
CatalogNameDeterminedBySku ==
  pc \in {"normalized", "matched", "done"} =>
    /\ \A p \in AllPairs : p.base_product_name = Replace(p.normalized_sku, "_", " ")
    /\ \A p, q \in AllPairs :
         p.normalized_sku = q.normalized_sku => p.base_product_name = q.base_product_name
    /\ {products_df[i].normalized_sku : i \in 1..Len(products_df)}
         = SkuSet(retail_df) \cup SkuSet(warehouse_df)
    /\ Len(products_df) = Cardinality(SkuSet(retail_df) \cup SkuSet(warehouse_df))
    /\ Range(products_df) = Range(BuildCatalog(warehouse_df, retail_df))

CatalogNameWitness ==
  /\ pc = "normalized"
  /\ \E i \in 1..Len(retail_df), j \in 1..Len(warehouse_df) :
       /\ retail_df[i].normalized_sku = warehouse_df[j].normalized_sku
       /\ retail_df[i].product_name # warehouse_df[j].product_name
  /\ \E i, j \in 1..Len(retail_df) :
       /\ retail_df[i].normalized_sku = retail_df[j].normalized_sku
       /\ retail_df[i].product_name # retail_df[j].product_name
  /\ Len(products_df) >= 2

====
